---- MODULE Spec2Model ----
(***************************************************************************)
(* Cohort scheduler (bot/cogs/scheduler.py): the validity checker, the     *)
(* time-option finder, the greedy assignment pass, the multi-start         *)
(* optimizer run_scheduling and the balancer balance_cohorts, as applied   *)
(* by the /schedule command.                                               *)
(*                                                                         *)
(* A Person is a record [id, intervals, if_needed_intervals]; a person's   *)
(* id is the position in the input list.  A Group is a record              *)
(* [id, people, facilitator_id, selected_time] whose people field is the   *)
(* list of member ids.  random.random() is a draw from RandomDraws, in     *)
(* tenths; randomness is in tenths as well.                                *)
(***************************************************************************)
EXTENDS Integers, Sequences, FiniteSets, TLC

\* ---------------------------------------------------------------- bounds
MaxPersons == 3
MaxPersonsRandom == 3
MaxPersonsLarge == 6
MaxIterations == 2

\* ------------------------------------------------------ program constants
MinutesPerWeek == 7 * 24 * 60
Day == 24 * 60

\* Optional[...] fields: None for a facilitator id and for a selected time
NoneId == 0
NoneTime == <<>>

\* ----------------------------------------------------------------- inputs
Mon == <<0, Day>>
Tue == <<Day, 2 * Day>>
MonTue == <<0, 2 * Day>>
\* an interval that ends between two grid points
MonMorning == <<0, Day \div 2>>
\* the default grid, time_increment = 30, and intervals on it
HalfHour == 30
MonNineToTen == <<540, 600>>
MonTenToEleven == <<600, 660>>
TueTwoToHalfPast == <<Day + 840, Day + 870>>
WholeWeek == <<0, MinutesPerWeek>>
Hour == 60
MonNineToEleven == <<540, 660>>
TueNineToTen == <<Day + 540, Day + 600>>
TueTenToEleven == <<Day + 600, Day + 660>>
TueNineToEleven == <<Day + 540, Day + 660>>

Person(i, ivs, ifn) == [id |-> i, intervals |-> ivs, if_needed_intervals |-> ifn]
Profile(ivs, ifn) == [intervals |-> ivs, if_needed_intervals |-> ifn]

Group(gid, members, fid) ==
    [id |-> gid, people |-> members, facilitator_id |-> fid, selected_time |-> NoneTime]

\* ------------------------------------------------------------ pure helpers
RECURSIVE SumLen(_)
SumLen(ivs) ==
    IF ivs = <<>> THEN 0
    ELSE (Head(ivs)[2] - Head(ivs)[1]) + SumLen(Tail(ivs))

calculate_total_available_time(person) ==
    SumLen(person.intervals) + SumLen(person.if_needed_intervals)

\* Python's range(lo, hi, step) for step > 0, as a set
Range(lo, hi, step) ==
    IF hi <= lo THEN {}
    ELSE {lo + k * step : k \in 0..((hi - lo - 1) \div step)}

InAny(ivs, t) == \E k \in DOMAIN ivs : ivs[k][1] <= t /\ t < ivs[k][2]

is_available(person, t, use_if_needed) ==
    \/ InAny(person.intervals, t)
    \/ use_if_needed /\ InAny(person.if_needed_intervals, t)

VARIABLES
    all_people,              \* schedule: every registered Person
    courses,                 \* schedule: people_by_course, member ids per course in dict order
    course,                  \* schedule: position in people_by_course of the course being run
    assigned_times,          \* schedule: person id -> blocks assigned in earlier courses
    all_solutions,           \* schedule: the groups kept per course, with global ids
    people,                  \* the input list of Person
    cfg,                     \* the arguments of run_scheduling and the caller's balance flag
    pc,                      \* where the /schedule run of one course stands
    iteration,               \* run_scheduling: loop index
    best_solution,           \* run_scheduling: best list of Group (<<>> while None)
    best_score,
    best_iteration,
    people_sorted,           \* run_greedy_iteration: processing order (ids)
    pos,                     \* run_greedy_iteration: next position in people_sorted
    new_groups,              \* run_greedy_iteration: groups built so far
    facilitator_assignments, \* run_greedy_iteration: groups opened per facilitator
    move_count,              \* balance_cohorts: moves made
    loop_heads,              \* balance_cohorts: sorted group lists seen at the loop head
    pass_scores              \* run_scheduling: the score of each pass run so far, in order

vars == <<all_people, courses, course, assigned_times, all_solutions, people, cfg, pc, iteration, best_solution, best_score, best_iteration,
          people_sorted, pos, new_groups, facilitator_assignments, move_count,
          loop_heads, pass_scores>>

\* --------------------------------------------------- group validity checker
\* mutant: only the first offset of the block is tested
block_is_valid_StartOnly(members, time_in_minutes, meeting_length, time_increment, use_if_needed) ==
    \A k \in DOMAIN members :
        is_available(people[members[k]], time_in_minutes, use_if_needed)

\* mutant: a block is valid only for two or more members
block_is_valid_NeedsTwo(members, time_in_minutes, meeting_length, time_increment, use_if_needed) ==
    /\ Len(members) >= 2
    /\ \A offset \in Range(0, meeting_length, time_increment) :
          \A k \in DOMAIN members :
              is_available(people[members[k]], time_in_minutes + offset, use_if_needed)

block_is_valid(members, time_in_minutes, meeting_length, time_increment, use_if_needed) ==
    \A offset \in Range(0, meeting_length, time_increment) :
        \A k \in DOMAIN members :
            is_available(people[members[k]], time_in_minutes + offset, use_if_needed)

facilitators_in_group(members, facilitator_ids) ==
    {k \in DOMAIN members : members[k] \in facilitator_ids}

is_group_valid(members, meeting_length, time_increment, use_if_needed, facilitator_ids) ==
    IF Len(members) = 0 THEN TRUE
    ELSE IF facilitator_ids # {}
            /\ Cardinality(facilitators_in_group(members, facilitator_ids)) # 1
         THEN FALSE
    ELSE \E time_in_minutes \in Range(0, MinutesPerWeek, time_increment) :
            block_is_valid(members, time_in_minutes, meeting_length, time_increment,
                           use_if_needed)

\* -------------------------------------------------------- time-option finder
\* the valid blocks among range(lo, hi, time_increment), in ascending order; the
\* range is walked in halves to keep the evaluation shallow
RECURSIVE OptionsFrom(_, _, _, _, _, _)
OptionsFrom(members, lo, hi, meeting_length, time_increment, use_if_needed) ==
    IF lo >= hi THEN <<>>
    ELSE IF lo + time_increment >= hi
    THEN (IF block_is_valid(members, lo, meeting_length, time_increment, use_if_needed)
          THEN << <<lo, lo + meeting_length>> >>
          ELSE <<>>)
    ELSE LET n == (hi - lo - 1) \div time_increment + 1
             mid == lo + time_increment * (n \div 2)
         IN  OptionsFrom(members, lo, mid, meeting_length, time_increment, use_if_needed)
             \o OptionsFrom(members, mid, hi, meeting_length, time_increment,
                            use_if_needed)

\* mutant: only the first valid block is returned
find_cohort_time_options_FirstOnly(members, meeting_length, time_increment, use_if_needed) ==
    SubSeq(OptionsFrom(members, 0, MinutesPerWeek, meeting_length, time_increment, use_if_needed), 1, 1)

find_cohort_time_options(members, meeting_length, time_increment, use_if_needed) ==
    OptionsFrom(members, 0, MinutesPerWeek, meeting_length, time_increment, use_if_needed)

\* ------------------------------------------------------------------ sorting
\* sorted(xs, key=...) is stable: x goes after every element whose key is <= its own
InsertByKey(s, x, key) ==
    LET n == Cardinality({k \in DOMAIN s : key[s[k]] <= key[x]})
    IN  SubSeq(s, 1, n) \o <<x>> \o SubSeq(s, n + 1, Len(s))

RECURSIVE SortedByKey(_, _)
SortedByKey(s, key) ==
    IF s = <<>> THEN <<>>
    ELSE InsertByKey(SortedByKey(SubSeq(s, 1, Len(s) - 1), key), s[Len(s)], key)

\* total * (1.0 - randomness*0.1 + random.random()*randomness*0.2), times 500,
\* with randomness and the draw in tenths
NoisyKey(person, randomness, draw) ==
    calculate_total_available_time(person) * (500 - 5 * randomness + draw * randomness)

\* groups.sort(key=len(people), reverse=True) is stable as well
InsertBySize(s, g) ==
    LET n == Cardinality({k \in DOMAIN s : Len(s[k].people) >= Len(g.people)})
    IN  SubSeq(s, 1, n) \o <<g>> \o SubSeq(s, n + 1, Len(s))

RECURSIVE SortGroupsDesc(_)
SortGroupsDesc(groups) ==
    IF groups = <<>> THEN <<>>
    ELSE InsertBySize(SortGroupsDesc(SubSeq(groups, 1, Len(groups) - 1)),
                      groups[Len(groups)])

\* ------------------------------------------------------- greedy assignment
RandomDraws == {0, 5, 9}

FacilitatorMode == cfg.facilitator_ids # {}

Ids == 1..Len(people)
IdSeq == [i \in Ids |-> i]

\* facilitators = [p for p in people if p.id in facilitator_ids]
facilitators == SelectSeq(IdSeq, LAMBDA i : i \in cfg.facilitator_ids)
non_facilitators == SelectSeq(IdSeq, LAMBDA i : i \notin cfg.facilitator_ids)

\* the list handed to sorted(): non-facilitators in facilitator mode, else everyone
ToSort == IF FacilitatorMode THEN non_facilitators ELSE IdSeq

\* mutant: no facilitator may open a group
max_cohorts_Zero(f) == 0

\* mutant: a facilitator without an entry may open two groups
max_cohorts_DefaultTwo(f) ==
    IF f \in DOMAIN cfg.facilitator_max_cohorts
    THEN cfg.facilitator_max_cohorts[f] ELSE 2

\* facilitator_max_cohorts.get(facilitator.id, 1) if facilitator_max_cohorts else 1
max_cohorts(f) ==
    IF f \in DOMAIN cfg.facilitator_max_cohorts
    THEN cfg.facilitator_max_cohorts[f] ELSE 1

\* the facilitator_ids argument of the pass's is_group_valid calls: passed in
\* facilitator mode only
PassFacilitatorIds == IF FacilitatorMode THEN cfg.facilitator_ids ELSE {}

HasRoom(group, max_people) == Len(group.people) < max_people

\* mutant: every group with room accepts the person
valid_group_indices_RoomOnly(groups, person) ==
    {i \in DOMAIN groups : HasRoom(groups[i], cfg.max_people)}

valid_group_indices(groups, person) ==
    {i \in DOMAIN groups :
        /\ HasRoom(groups[i], cfg.max_people)
        /\ is_group_valid(Append(groups[i].people, person), cfg.meeting_length,
                          cfg.time_increment, cfg.use_if_needed, PassFacilitatorIds)}

Min(S) == CHOOSE x \in S : \A y \in S : x <= y

\* if randomness == 0 or random.random() > randomness: first, else random.choice
\* mutant: without randomness the last valid group is taken
SelectIndex_Highest(valid, randomness, draw, choice) == IF randomness = 0 THEN (CHOOSE x \in valid : \A y \in valid : y <= x) ELSE choice

\* mutant: the group is always the randomly chosen one
SelectIndex_AlwaysChoice(valid, randomness, draw, choice) == choice

SelectIndex(valid, randomness, draw, choice) ==
    IF randomness = 0 \/ draw > randomness THEN Min(valid) ELSE choice

\* mutant: the person stays a candidate for the next group too
AddToGroup_AndNext(groups, i, person) == [k \in DOMAIN groups |-> IF k = i \/ (k = i + 1 /\ Len(groups[k].people) < cfg.max_people) THEN [groups[k] EXCEPT !.people = Append(@, person)] ELSE groups[k]]

AddToGroup(groups, i, person) ==
    [groups EXCEPT ![i].people = Append(@, person)]

\* positions in facilitators of those who may open a group with this person
OpenableBy(person) ==
    {k \in DOMAIN facilitators :
        /\ facilitator_assignments[facilitators[k]] < max_cohorts(facilitators[k])
        /\ is_group_valid(<<facilitators[k], person>>, cfg.meeting_length,
                          cfg.time_increment, cfg.use_if_needed, cfg.facilitator_ids)}

\* mutant: the new group is opened without its facilitator
NewFacilitatorGroup_NoFacilitator(gid, facilitator, person) ==
    Group(gid, <<person>>, facilitator)

NewFacilitatorGroup(gid, facilitator, person) == Group(gid, <<facilitator, person>>, facilitator)

NewGroup(gid, person) == Group(gid, <<person>>, NoneId)

\* mutant: the pass returns new_groups unfiltered
FilterSmall_Unfiltered(groups, min_people) == groups

\* valid_groups = [g for g in new_groups if len(g.people) >= min_people]
FilterSmall(groups, min_people) ==
    SelectSeq(groups, LAMBDA g : Len(g.people) >= min_people)

\* mutant: the score counts groups, not people
Score_Groups(solution) == Len(solution)

RECURSIVE Score(_)
Score(solution) ==
    IF solution = <<>> THEN 0
    ELSE Len(Head(solution).people) + Score(Tail(solution))

\* the draws that can tell two sort keys apart: at randomness 0 the draw is
\* multiplied by 0, so one value stands for all
SortDraws == IF cfg.randomness = 0 THEN {0} ELSE RandomDraws

\* the head of run_greedy_iteration: split, sort with one draw per person
GreedySort ==
    /\ pc = "iterate"
    /\ \E draws \in [Ids -> SortDraws] :
         LET key == [i \in Ids |-> NoisyKey(people[i], cfg.randomness, draws[i])]
         IN  people_sorted' = SortedByKey(ToSort, key)
    /\ pos' = 1
    /\ new_groups' = <<>>
    /\ facilitator_assignments' = [f \in {facilitators[k] : k \in DOMAIN facilitators} |-> 0]
    /\ pc' = "place"
    /\ UNCHANGED <<all_people, courses, course, assigned_times, all_solutions>>
    /\ UNCHANGED <<people, cfg, iteration, best_solution, best_score, best_iteration,
                   move_count, loop_heads, pass_scores>>

\* one pass of the loop over the sorted people
GreedyPlace ==
    /\ pc = "place"
    /\ pos <= Len(people_sorted)
    /\ LET person == people_sorted[pos]
           valid == valid_group_indices(new_groups, person)
       IN  IF valid # {}
           THEN /\ \E draw \in RandomDraws, choice \in valid :
                     new_groups' = AddToGroup(new_groups,
                                      SelectIndex(valid, cfg.randomness, draw, choice),
                                      person)
                /\ UNCHANGED facilitator_assignments
           ELSE IF FacilitatorMode
           THEN IF OpenableBy(person) # {}
                THEN LET f == facilitators[Min(OpenableBy(person))]
                     IN  /\ new_groups' = Append(new_groups,
                                            NewFacilitatorGroup(Len(new_groups), f, person))
                         /\ facilitator_assignments' =
                                [facilitator_assignments EXCEPT ![f] = @ + 1]
                ELSE UNCHANGED <<new_groups, facilitator_assignments>>
           ELSE /\ new_groups' = Append(new_groups, NewGroup(Len(new_groups), person))
                /\ UNCHANGED facilitator_assignments
    /\ pos' = pos + 1
    /\ UNCHANGED <<all_people, courses, course, assigned_times, all_solutions>>
    /\ UNCHANGED <<people, cfg, pc, iteration, best_solution, best_score, best_iteration,
                   people_sorted, move_count, loop_heads, pass_scores>>

\* ------------------------------------------------------ multi-start optimizer
\* mutant: an empty solution never counts as an improvement
Improves_OnlyPositive(score, best) == score > best /\ score > 0

\* mutant: a later pass with an equal score replaces the best
Improves_OrEqual(score, best) == score >= best

Improves(score, best) == score > best

\* mutant: the loop never breaks early
FullPlacement_Never(score) == FALSE

\* if best_score == len(people): break
FullPlacement(score) == score = Len(people)

\* the pass returns its filtered groups; run_scheduling scores them, keeps the
\* best, breaks on full placement or goes on to the next iteration
GreedyReturn ==
    /\ pc = "place"
    /\ pos > Len(people_sorted)
    /\ LET solution == FilterSmall(new_groups, cfg.min_people)
           score == Score(solution)
           better == Improves(score, best_score)
       IN  /\ best_score' = IF better THEN score ELSE best_score
           /\ best_solution' = IF better THEN solution ELSE best_solution
           /\ best_iteration' = IF better THEN iteration ELSE best_iteration
           /\ pass_scores' = Append(pass_scores, score)
           /\ IF better /\ FullPlacement(score)
              THEN pc' = "assign" /\ UNCHANGED iteration
              ELSE IF iteration + 1 < cfg.num_iterations
              THEN pc' = "iterate" /\ iteration' = iteration + 1
              ELSE pc' = "assign" /\ UNCHANGED iteration
    /\ UNCHANGED <<all_people, courses, course, assigned_times, all_solutions>>
    /\ UNCHANGED <<people, cfg, people_sorted, pos, new_groups, facilitator_assignments,
                   move_count, loop_heads>>

\* options = find_cohort_time_options(group.people, meeting_length, time_increment):
\* use_if_needed is left at its default, True
SelectTime(group) ==
    LET options == find_cohort_time_options(group.people, cfg.meeting_length,
                                            cfg.time_increment, TRUE)
    IN  IF options # <<>> THEN [group EXCEPT !.selected_time = options[1]] ELSE group

AssignTimes ==
    /\ pc = "assign"
    /\ best_solution' = [i \in DOMAIN best_solution |-> SelectTime(best_solution[i])]
    /\ pc' = "returned"
    /\ UNCHANGED <<all_people, courses, course, assigned_times, all_solutions>>
    /\ UNCHANGED <<people, cfg, iteration, best_score, best_iteration, people_sorted, pos,
                   new_groups, facilitator_assignments, move_count, loop_heads,
                   pass_scores>>

\* ----------------------------------------------------------------- balancer
\* if len(source_group.people) <= len(target_group.people): continue
SourceLarger(source_group, target_group) ==
    Len(source_group.people) > Len(target_group.people)

\* mutant: the move is made without asking the validity checker
Compatible_Unchecked(target_group, person) == TRUE

\* the balancer's is_group_valid call passes no facilitator_ids
Compatible(target_group, person) ==
    is_group_valid(Append(target_group.people, person), cfg.meeting_length,
                   cfg.time_increment, cfg.use_if_needed, {})

\* <<source_idx, target_idx, i>> of every move the scan would accept
MovesFrom(groups, source_idx) ==
    {m \in {source_idx} \X (DOMAIN groups) \X (DOMAIN groups[source_idx].people) :
        /\ source_idx < m[2]
        /\ SourceLarger(groups[source_idx], groups[m[2]])
        /\ Compatible(groups[m[2]], groups[source_idx].people[m[3]])}

Moves(groups) == UNION {MovesFrom(groups, source_idx) : source_idx \in DOMAIN groups}

\* scan order: source_idx ascending, target_idx descending, member index ascending
ScannedBefore(a, b) ==
    \/ a[1] < b[1]
    \/ a[1] = b[1] /\ a[2] > b[2]
    \/ a[1] = b[1] /\ a[2] = b[2] /\ a[3] <= b[3]

FirstMove(groups) ==
    CHOOSE m \in Moves(groups) : \A o \in Moves(groups) : ScannedBefore(m, o)

RemoveAt(s, i) == SubSeq(s, 1, i - 1) \o SubSeq(s, i + 1, Len(s))

\* mutant: the person is appended to the target but not popped from the source
ApplyMove_NoPop(groups, m) ==
    [groups EXCEPT ![m[2]].people = Append(@, groups[m[1]].people[m[3]])]

\* source_group.people.pop(i); target_group.people.append(person)
ApplyMove(groups, m) ==
    LET person == groups[m[1]].people[m[3]]
    IN  [groups EXCEPT ![m[1]].people = RemoveAt(@, m[3]),
                       ![m[2]].people = Append(@, person)]

\* mutant: the loop also stops at a gap of two
Balanced_Loose(groups) ==
    Len(groups[1].people) - Len(groups[Len(groups)].people) <= 2

\* if len(largest_group.people) - len(smallest_group.people) <= 1: break
Balanced(groups) ==
    Len(groups[1].people) - Len(groups[Len(groups)].people) <= 1

\* the caller: if balance and solution and len(solution) >= 2: balance_cohorts(...)
CallBalance ==
    /\ pc = "returned"
    /\ pc' = IF cfg.balance /\ Len(best_solution) >= 2 THEN "balance" ELSE "done"
    /\ move_count' = 0
    /\ loop_heads' = {}
    /\ UNCHANGED <<all_people, courses, course, assigned_times, all_solutions>>
    /\ UNCHANGED <<people, cfg, iteration, best_solution, best_score, best_iteration,
                   people_sorted, pos, new_groups, facilitator_assignments, pass_scores>>

\* one turn of "while improved": sort, test the gap, scan for the first move.
\* A loop-head list that was seen before repeats the same turns from there on,
\* so the exploration stops at it.
BalanceTurn ==
    /\ pc = "balance"
    /\ LET groups == SortGroupsDesc(best_solution)
       IN  /\ groups \notin loop_heads
           /\ loop_heads' = loop_heads \cup {groups}
           /\ IF Balanced(groups) \/ Moves(groups) = {}
              THEN /\ best_solution' = groups
                   /\ pc' = "done"
                   /\ UNCHANGED move_count
              ELSE /\ best_solution' = ApplyMove(groups, FirstMove(groups))
                   /\ move_count' = move_count + 1
                   /\ pc' = "balance"
    /\ UNCHANGED <<all_people, courses, course, assigned_times, all_solutions>>
    /\ UNCHANGED <<people, cfg, iteration, best_score, best_iteration, people_sorted, pos,
                   new_groups, facilitator_assignments, pass_scores>>

\* ------------------------------------------------------------------- inputs
Profiles ==
    { Profile(<<>>, <<>>),
      Profile(<<Mon>>, <<>>),
      Profile(<<Tue>>, <<>>),
      Profile(<<MonTue>>, <<>>),
      Profile(<<Tue>>, <<Mon>>),
      Profile(<<MonMorning>>, <<>>) }

ProfilesRandom == { Profile(<<Mon>>, <<>>), Profile(<<Tue>>, <<>>), Profile(<<MonTue>>, <<>>) }

ProfilesLarge == { Profile(<<Mon>>, <<>>), Profile(<<Tue>>, <<>>) }

PeopleLists(n, profiles) ==
    {[i \in 1..n |-> Person(i, ps[i].intervals, ps[i].if_needed_intervals)] :
        ps \in [1..n -> profiles]}

\* two people free on one day each and two free on both days: the smallest input
\* whose score depends on the order of placement and on the group chosen
ProfilesContended ==
    <<Profile(<<Mon>>, <<>>), Profile(<<Tue>>, <<>>),
      Profile(<<MonTue>>, <<>>), Profile(<<MonTue>>, <<>>)>>

\* that input in every order of the list
PeopleContended ==
    LET n == Len(ProfilesContended)
        orders == {f \in [1..n -> 1..n] : \A i, j \in 1..n : i # j => f[i] # f[j]}
    IN  {[i \in 1..n |-> Person(i, ProfilesContended[f[i]].intervals,
                                ProfilesContended[f[i]].if_needed_intervals)] :
            f \in orders}

\* the lists that hold the given profiles in some order
InEveryOrder(profiles) ==
    LET n == Len(profiles)
        orders == {f \in [1..n -> 1..n] : \A i, j \in 1..n : i # j => f[i] # f[j]}
    IN  {[i \in 1..n |-> Person(i, profiles[f[i]].intervals,
                                profiles[f[i]].if_needed_intervals)] : f \in orders}

\* four people free Monday 09:00-10:00 and one free Monday 10:00-11:00
ProfilesFive ==
    <<Profile(<<MonNineToTen>>, <<>>), Profile(<<MonNineToTen>>, <<>>),
      Profile(<<MonNineToTen>>, <<>>), Profile(<<MonNineToTen>>, <<>>),
      Profile(<<MonTenToEleven>>, <<>>)>>

PeopleFive == InEveryOrder(ProfilesFive)

\* a facilitator free the whole week and three people free Tuesday 14:00-14:30
ProfilesFacilitated ==
    <<Profile(<<WholeWeek>>, <<>>), Profile(<<TueTwoToHalfPast>>, <<>>),
      Profile(<<TueTwoToHalfPast>>, <<>>), Profile(<<TueTwoToHalfPast>>, <<>>)>>

PeopleFacilitated == InEveryOrder(ProfilesFacilitated)

\* three people free on Tuesday only and one free on Monday and Tuesday: groups
\* of 3 and 1 whose earliest slots differ, between which the balancer moves a person
ProfilesUneven ==
    <<Profile(<<Tue>>, <<>>), Profile(<<Tue>>, <<>>), Profile(<<Tue>>, <<>>),
      Profile(<<MonTue>>, <<>>)>>

PeopleUneven == InEveryOrder(ProfilesUneven)

NoCaps == <<>>

Config(ml, mn, mx, it, rnd, fids, caps, uin) ==
    [meeting_length |-> ml, min_people |-> mn, max_people |-> mx, num_iterations |-> it,
     time_increment |-> Day, randomness |-> rnd, facilitator_ids |-> fids,
     facilitator_max_cohorts |-> caps, use_if_needed |-> uin, balance |-> TRUE]

\* few people, every kind of availability, both block lengths, both modes
Configs ==
    {Config(ml, sz[1], sz[2], 1, 0, fids, NoCaps, uin) :
        ml \in {Day, 2 * Day}, sz \in {<<1, 1>>, <<1, 2>>, <<2, 3>>},
        fids \in {{}, {1}}, uin \in BOOLEAN}

\* random order and random group choice over several iterations
ConfigsRandom ==
    {Config(Day, sz[1], sz[2], it, rnd, fids, NoCaps, TRUE) :
        sz \in {<<1, 2>>, <<2, 3>>}, it \in {1, MaxIterations}, rnd \in {0, 5},
        fids \in {{}, {1}}}

\* passes of the same input that score differently
ConfigsContended ==
    {Config(Day, sz[1], sz[2], MaxIterations, rnd, fc[1], fc[2], TRUE) :
        sz \in {<<2, 2>>, <<3, 3>>}, rnd \in {0, 5},
        fc \in {<<{}, NoCaps>>, <<{1}, NoCaps>>, <<{1}, (1 :> 2)>>}}

\* groups of 1 to 3, one pass, no facilitators
ConfigsUneven ==
    {Config(Day, 1, 3, 1, rnd, {}, NoCaps, TRUE) : rnd \in {0, 5}}

OnGrid(c, inc) == [c EXCEPT !.time_increment = inc]

\* half-hour meetings on the half-hour grid, groups of 2 to 5, no facilitators
ConfigsFive ==
    {OnGrid(Config(HalfHour, 2, 5, 1, rnd, {}, NoCaps, TRUE), HalfHour) : rnd \in {0, 5}}

\* the person free the whole week is the only facilitator, with a cap of 1
ConfigsFacilitated(ppl) ==
    LET F == CHOOSE i \in DOMAIN ppl : ppl[i].intervals = <<WholeWeek>>
    IN  {OnGrid(Config(HalfHour, sz[1], sz[2], 1, rnd, {F}, (F :> 1), TRUE), HalfHour) :
            sz \in {<<1, 4>>, <<4, 4>>, <<2, 5>>, <<4, 8>>}, rnd \in {0, 5}}

\* enough people for several groups of different sizes
ConfigsLarge ==
    {Config(Day, sz[1], sz[2], 1, 0, fc[1], fc[2], TRUE) :
        sz \in {<<1, 2>>, <<1, 3>>, <<2, 4>>, <<1, 5>>},
        fc \in {<<{}, NoCaps>>, <<{1, 2}, NoCaps>>, <<{1, 2}, (1 :> 2)>>}}

\* arguments outside the input contract: a meeting length that is not a positive
\* multiple of the grid, min_people above max_people, a size limit of 0 or less
ConfigsInvalid ==
    {Config(ml, 1, 2, 1, 0, fids, NoCaps, TRUE) :
        ml \in {0, Day \div 2, Day + Day \div 2}, fids \in {{}, {1}}}
    \cup {Config(Day, sz[1], sz[2], 1, 0, fids, NoCaps, TRUE) :
            sz \in {<<2, 1>>, <<3, 2>>, <<0, 2>>, <<0, 0>>, <<-1, 1>>, <<1, 0>>},
            fids \in {{}, {1}}}

Start ==
    /\ pc = "iterate"
    /\ iteration = 0
    /\ best_solution = <<>>
    /\ best_score = -1
    /\ best_iteration = -1
    /\ people_sorted = <<>>
    /\ pos = 1
    /\ new_groups = <<>>
    /\ facilitator_assignments = <<>>
    /\ move_count = 0
    /\ loop_heads = {}
    /\ pass_scores = <<>>

\* the command with one course that holds everyone: the run of that course
SingleCourse ==
    /\ all_people = people
    /\ courses = <<IdSeq>>
    /\ course = 1
    /\ assigned_times = [i \in Ids |-> <<>>]
    /\ all_solutions = <<>>

Init ==
    /\ \/ \E n \in 0..MaxPersons :
            people \in PeopleLists(n, Profiles) /\ cfg \in Configs
       \/ \E n \in {0, MaxPersonsRandom} :
            people \in PeopleLists(n, ProfilesRandom) /\ cfg \in ConfigsRandom
       \/ people \in PeopleContended /\ cfg \in ConfigsContended
       \/ people \in PeopleUneven /\ cfg \in ConfigsUneven
       \/ people \in PeopleFive /\ cfg \in ConfigsFive
       \/ people \in PeopleFacilitated /\ cfg \in ConfigsFacilitated(people)
       \/ \E n \in (MaxPersonsLarge - 1)..MaxPersonsLarge :
            people \in PeopleLists(n, ProfilesLarge) /\ cfg \in ConfigsLarge
    /\ SingleCourse
    /\ Start

Next ==
    \/ GreedySort
    \/ GreedyPlace
    \/ GreedyReturn
    \/ AssignTimes
    \/ CallBalance
    \/ BalanceTurn

Spec == Init /\ [][Next]_vars

\* the same program called with arguments outside the input contract
InitContract ==
    /\ \E n \in 0..MaxPersons : people \in PeopleLists(n, ProfilesRandom)
    /\ cfg \in ConfigsInvalid
    /\ SingleCourse
    /\ Start

SpecContract == InitContract /\ [][Next]_vars

\* ------------------------------------------------- the per-course loop
\* mutant: a block that only touches the interval counts as a conflict
conflicts_Touching(interval, blocked) == \E k \in DOMAIN blocked : interval[1] <= blocked[k][2] /\ interval[2] >= blocked[k][1]

\* for b_start, b_end in blocked: if start < b_end and end > b_start: conflicts = True
conflicts(interval, blocked) ==
    \E k \in DOMAIN blocked : interval[1] < blocked[k][2] /\ interval[2] > blocked[k][1]

\* new_intervals / new_if_needed: the intervals without conflict, in order
new_intervals(intervals, blocked) ==
    SelectSeq(intervals, LAMBDA interval : ~conflicts(interval, blocked))

\* the Person handed to the run at position i of the course's list; the groups of
\* the run refer to people by that position
adjusted_person(i, person, blocked) ==
    IF blocked # <<>>
    THEN Person(i, new_intervals(person.intervals, blocked),
                new_intervals(person.if_needed_intervals, blocked))
    ELSE Person(i, person.intervals, person.if_needed_intervals)

adjusted_people(members) ==
    [i \in DOMAIN members |->
        adjusted_person(i, all_people[members[i]], assigned_times[members[i]])]

\* the head of the loop body for the next course: skipped if it has fewer than
\* min_people people, else the availability is adjusted and run_scheduling starts
StartCourse ==
    /\ pc = "next_course"
    /\ course < Len(courses)
    /\ course' = course + 1
    /\ IF Len(courses[course + 1]) < cfg.min_people
       THEN /\ all_solutions' = Append(all_solutions, <<>>)
            /\ UNCHANGED <<people, pc, best_solution>>
       ELSE /\ people' = adjusted_people(courses[course + 1])
            /\ pc' = "iterate"
            /\ best_solution' = <<>>
            /\ UNCHANGED all_solutions
    /\ iteration' = 0
    /\ best_score' = -1
    /\ best_iteration' = -1
    /\ people_sorted' = <<>>
    /\ pos' = 1
    /\ new_groups' = <<>>
    /\ facilitator_assignments' = <<>>
    /\ move_count' = 0
    /\ loop_heads' = {}
    /\ pass_scores' = <<>>
    /\ UNCHANGED <<all_people, courses, assigned_times, cfg>>

\* the blocks appended for the person at position i of the course's list: the
\* selected_time of every group, in order, that lists the person
NewBlocks(solution, i) ==
    LET mine == SelectSeq(solution, LAMBDA group :
                    /\ group.selected_time # NoneTime
                    /\ \E m \in DOMAIN group.people : group.people[m] = i)
    IN  [k \in DOMAIN mine |-> mine[k].selected_time]

\* position in the course's list of a global id, 0 if the person is not in it
PositionIn(members, id) ==
    IF \E i \in DOMAIN members : members[i] = id
    THEN CHOOSE i \in DOMAIN members : members[i] = id
    ELSE 0

\* after the run and the balancer: every member of every group with a selected_time
\* gets that block appended to assigned_times, and the solution is kept
TrackAssignedTimes ==
    /\ pc = "done"
    /\ LET members == courses[course]
       IN  /\ assigned_times' =
                 [id \in DOMAIN assigned_times |->
                     IF PositionIn(members, id) = 0 THEN assigned_times[id]
                     ELSE assigned_times[id]
                            \o NewBlocks(best_solution, PositionIn(members, id))]
           /\ all_solutions' =
                 Append(all_solutions,
                        [k \in DOMAIN best_solution |->
                            [best_solution[k] EXCEPT
                                !.people = [m \in DOMAIN @ |-> members[@[m]]]]])
    /\ pc' = "next_course"
    /\ UNCHANGED <<all_people, courses, course, people, cfg, iteration, best_solution,
                   best_score, best_iteration, people_sorted, pos, new_groups,
                   facilitator_assignments, move_count, loop_heads, pass_scores>>

\* people registered for two courses: one free Monday and Tuesday 09:00-10:00, one
\* free Tuesday 09:00-10:00, one free Tuesday 09:00-10:00 and 10:00-11:00, and one
\* free Monday 09:00-11:00 and, if needed, Tuesday 09:00-11:00
ProfilesCourses ==
    <<Profile(<<MonNineToTen, TueNineToTen>>, <<>>),
      Profile(<<TueNineToTen>>, <<>>),
      Profile(<<TueNineToTen, TueTenToEleven>>, <<>>),
      Profile(<<MonNineToEleven>>, <<TueNineToEleven>>)>>

AllPeopleCourses ==
    {[i \in DOMAIN ProfilesCourses |->
        Person(i, ProfilesCourses[i].intervals, ProfilesCourses[i].if_needed_intervals)]}

\* the members of a course in the order of all_people
InOrder(S) == SelectSeq([i \in DOMAIN ProfilesCourses |-> i], LAMBDA i : i \in S)

\* two courses, one with everyone and one with some of them, in both orders
CourseLists ==
    LET everyone == DOMAIN ProfilesCourses
    IN  UNION {{<<InOrder(S), InOrder(everyone)>>, <<InOrder(everyone), InOrder(S)>>} :
                 S \in (SUBSET everyone) \ {{}}}

\* the arguments the command passes on: one-hour meetings, the default grid and
\* randomness of run_scheduling, no facilitator mode, balancing on or off
ConfigsCourses ==
    {[OnGrid(Config(Hour, sz[1], sz[2], 1, 5, {}, NoCaps, TRUE), HalfHour)
         EXCEPT !.balance = b] :
        sz \in {<<1, 3>>, <<2, 3>>}, b \in BOOLEAN}

InitCourses ==
    /\ all_people \in AllPeopleCourses
    /\ courses \in CourseLists
    /\ cfg \in ConfigsCourses
    /\ course = 0
    /\ assigned_times = [i \in DOMAIN all_people |-> <<>>]
    /\ all_solutions = <<>>
    /\ people = <<>>
    /\ pc = "next_course"
    /\ iteration = 0
    /\ best_solution = <<>>
    /\ best_score = -1
    /\ best_iteration = -1
    /\ people_sorted = <<>>
    /\ pos = 1
    /\ new_groups = <<>>
    /\ facilitator_assignments = <<>>
    /\ move_count = 0
    /\ loop_heads = {}
    /\ pass_scores = <<>>

NextCourses ==
    \/ StartCourse
    \/ GreedySort
    \/ GreedyPlace
    \/ GreedyReturn
    \/ AssignTimes
    \/ CallBalance
    \/ BalanceTurn
    \/ TrackAssignedTimes

SpecCourses == InitCourses /\ [][NextCourses]_vars

\* ------------------------------------------------------------- properties
Returned == pc = "returned"
Balancing == pc \in {"balance", "done"}

FacilitatorsOf(group) == facilitators_in_group(group.people, cfg.facilitator_ids)

AllTimeValid(groups) ==
    \A k \in DOMAIN groups :
        is_group_valid(groups[k].people, cfg.meeting_length, cfg.time_increment,
                       cfg.use_if_needed, {})

Occurrences(group, i) == Cardinality({k \in DOMAIN group.people : group.people[k] = i})

RECURSIVE TotalOccurrences(_, _)
TotalOccurrences(groups, i) ==
    IF groups = <<>> THEN 0
    ELSE Occurrences(Head(groups), i) + TotalOccurrences(Tail(groups), i)

MemberBag(groups) == [i \in Ids |-> TotalOccurrences(groups, i)]

GroupIds(groups) == {groups[k].id : k \in DOMAIN groups}
SizeOf(groups, gid) ==
    LET k == CHOOSE j \in DOMAIN groups : groups[j].id = gid IN Len(groups[k].people)

\* C1: every group of the solution run_scheduling returns passes is_group_valid
\* with the run's meeting_length, time_increment, use_if_needed, facilitator_ids
C1_ValiditySoundness ==
    Returned =>
        \A k \in DOMAIN best_solution :
            is_group_valid(best_solution[k].people, cfg.meeting_length,
                           cfg.time_increment, cfg.use_if_needed, cfg.facilitator_ids)

\* C2: balance_cohorts returns after finitely many moves.  Its loop is a function
\* of the sorted group list at the loop head, so it returns iff no such list
\* comes back a second time
C2_BalancerTerminates ==
    (pc = "balance" /\ AllTimeValid(best_solution)) =>
        SortGroupsDesc(best_solution) \notin loop_heads

\* C3: no group returned by the optimizer, and no group during or after
\* balancing, has more than max_people members
C3_MaxSize ==
    (Returned \/ Balancing) =>
        \A k \in DOMAIN best_solution : Len(best_solution[k].people) <= cfg.max_people

\* C4: no group of the kept solution, before, during or after balancing, has
\* fewer than min_people members
C4_MinSize ==
    \A k \in DOMAIN best_solution : Len(best_solution[k].people) >= cfg.min_people

\* C4 witness: with min_people above 1, the balancer has moved someone and returned
C4_Witness ==
    /\ pc = "done"
    /\ move_count >= 1
    /\ cfg.min_people >= 2

\* C5: in facilitator mode every group of the optimizer's solution holds exactly
\* one member whose id is in facilitator_ids
C5_FacilitatorInvariantOptimizer ==
    (FacilitatorMode /\ ~Balancing) =>
        \A k \in DOMAIN best_solution :
            Cardinality(FacilitatorsOf(best_solution[k])) = 1

\* C5 witness: a facilitator-mode run returned two groups, one of them grown
\* beyond its opening pair
C5_Witness ==
    /\ Returned
    /\ FacilitatorMode
    /\ Len(best_solution) >= 2
    /\ \E k \in DOMAIN best_solution : Len(best_solution[k].people) >= 3

\* C6: in facilitator mode every group still holds exactly one facilitator
\* while and after the caller balances the solution
C6_FacilitatorInvariantBalanced ==
    (FacilitatorMode /\ Balancing) =>
        \A k \in DOMAIN best_solution :
            Cardinality(FacilitatorsOf(best_solution[k])) = 1

\* C7: when run_scheduling returns best_score = len(people), every input person
\* is a member of some group of best_solution
C7_EarlyExitFullPlacement ==
    (Returned /\ best_score = Len(people)) =>
        \A i \in Ids : TotalOccurrences(best_solution, i) >= 1

\* C8: each returned group's selected_time is the earliest block at which all
\* members are available under the use_if_needed passed to run_scheduling
C8_SelectedSlotRespectsConfig ==
    Returned =>
        \A k \in DOMAIN best_solution :
            LET options == find_cohort_time_options(best_solution[k].people,
                               cfg.meeting_length, cfg.time_increment, cfg.use_if_needed)
            IN  IF options = <<>> THEN best_solution[k].selected_time = NoneTime
                ELSE best_solution[k].selected_time = options[1]

\* number of single-person moves between two group lists: each move takes one
\* member from one group and gives one to another
MovesBetween(before, after) ==
    Cardinality({gid \in GroupIds(before) : SizeOf(after, gid) = SizeOf(before, gid) + 1})

\* C9: a turn of the balancer keeps the multiset of members and the groups, and
\* move_count grows by exactly the number of single-person moves made
C9_BalancerPreservesMembership ==
    [][pc = "balance" =>
          /\ MemberBag(best_solution') = MemberBag(best_solution)
          /\ Len(best_solution') = Len(best_solution)
          /\ GroupIds(best_solution') = GroupIds(best_solution)
          /\ move_count' = move_count + MovesBetween(best_solution, best_solution')]_vars

\* C9 witness: the balancer returned after several moves
C9_Witness == pc = "done" /\ move_count >= 2

\* C10: if every group is valid (no facilitator constraint) before a turn of the
\* balancer, every group is valid after it
C10_BalancerPreservesValidity ==
    [][(pc = "balance" /\ AllTimeValid(best_solution)) => AllTimeValid(best_solution')]_vars

\* C10 witness: the balancer returned valid groups after a move
C10_Witness == pc = "done" /\ move_count >= 1 /\ AllTimeValid(best_solution)

SizeGap(groups) ==
    LET sizes == {Len(groups[k].people) : k \in DOMAIN groups}
    IN  (CHOOSE hi \in sizes : \A x \in sizes : x <= hi)
        - (CHOOSE lo \in sizes : \A x \in sizes : lo <= x)

\* a person of a strictly larger group whom a smaller group could take
ValidMoveExists(groups) ==
    \E s, t \in DOMAIN groups :
        /\ Len(groups[s].people) > Len(groups[t].people)
        /\ \E i \in DOMAIN groups[s].people :
              is_group_valid(Append(groups[t].people, groups[s].people[i]),
                             cfg.meeting_length, cfg.time_increment, cfg.use_if_needed, {})

\* C11: when balance_cohorts has returned there are fewer than two groups, or the
\* largest and smallest sizes differ by at most 1, or no person of a larger group
\* can join a smaller group validly
C11_BalancerStopCondition ==
    pc = "done" =>
        \/ Len(best_solution) < 2
        \/ SizeGap(best_solution) <= 1
        \/ ~ValidMoveExists(best_solution)

\* the balancer has returned with a gap of more than 1 because no move is valid
C11_Witness ==
    /\ pc = "done"
    /\ Len(best_solution) >= 2
    /\ SizeGap(best_solution) > 1

\* the ends of a person's usable intervals: the only minutes at which availability
\* can stop
IntervalEnds(person, use_if_needed) ==
    {person.intervals[k][2] : k \in DOMAIN person.intervals}
    \cup (IF use_if_needed
          THEN {person.if_needed_intervals[k][2] : k \in DOMAIN person.if_needed_intervals}
          ELSE {})

\* person is available at every minute of [t0, t0 + meeting_length): at t0, and at
\* every interval end inside the block (the first uncovered minute after t0, if
\* there is one, is the end of the interval that covers the minute before it)
AvailableThroughout(person, t0, meeting_length, use_if_needed) ==
    /\ is_available(person, t0, use_if_needed)
    /\ \A e \in IntervalEnds(person, use_if_needed) :
          (t0 < e /\ e < t0 + meeting_length) => is_available(person, e, use_if_needed)

FullBlockExists(members) ==
    \E t0 \in Range(0, MinutesPerWeek, cfg.time_increment) :
        \A k \in DOMAIN members :
            AvailableThroughout(people[members[k]], t0, cfg.meeting_length,
                                cfg.use_if_needed)

\* C12: every returned group has a grid-aligned start t0 such that every member is
\* available at every minute of [t0, t0 + meeting_length).  Stated for the groups
\* that pass the time test of is_group_valid, where only the sampling of the block
\* at grid offsets can make the difference
C12_FullBlockAvailability ==
    Returned =>
        \A k \in DOMAIN best_solution :
            is_group_valid(best_solution[k].people, cfg.meeting_length, cfg.time_increment,
                           cfg.use_if_needed, {})
                => FullBlockExists(best_solution[k].people)

\* the member lists the checker is compared on: the empty group, every list of one
\* or two ids (a repeated id included), and the whole input
TestMembers ==
    {<<>>, IdSeq} \cup {<<i>> : i \in Ids} \cup {<<i, j>> : i, j \in Ids}

\* the facilitator sets the checker is compared on: the run's (none in half of the
\* runs) and the first two ids
TestFacilitatorIds == {cfg.facilitator_ids, Ids \cap {1, 2}}

ReferenceAvailable(person, t, use_if_needed) ==
    \/ \E iv \in {person.intervals[k] : k \in DOMAIN person.intervals} :
          iv[1] <= t /\ t < iv[2]
    \/ /\ use_if_needed
       /\ \E iv \in {person.if_needed_intervals[k] : k \in DOMAIN person.if_needed_intervals} :
             iv[1] <= t /\ t < iv[2]

\* {0, inc, ..., 10080 - inc}
ReferenceStarts(inc) == {n * inc : n \in 0..(MinutesPerWeek \div inc - 1)}

\* every k * inc with 0 <= k * inc < meeting_length
ReferenceOffsets(meeting_length, inc) ==
    {o \in {k * inc : k \in 0..(meeting_length \div inc)} : o < meeting_length}

\* the reference definition of validity, written from the claim
ReferenceValid(members, meeting_length, inc, use_if_needed, facilitator_ids) ==
    IF members = <<>> THEN TRUE
    ELSE IF facilitator_ids # {}
            /\ Cardinality({k \in DOMAIN members : members[k] \in facilitator_ids}) # 1
    THEN FALSE
    ELSE \E t0 \in ReferenceStarts(inc) :
             \A o \in ReferenceOffsets(meeting_length, inc) :
                 \A m \in DOMAIN members :
                     ReferenceAvailable(people[members[m]], t0 + o, use_if_needed)

\* C13: is_group_valid returns what its reference definition returns: True for the
\* empty group; False when facilitator_ids is non-empty and the group does not hold
\* exactly one of them; otherwise True iff at some grid start every member is
\* available at every grid offset of the block.  Compared at the end of each run,
\* on the run's people and arguments
C13_ValidityMatchesReference ==
    Returned =>
        \A members \in TestMembers, facilitator_ids \in TestFacilitatorIds :
            is_group_valid(members, cfg.meeting_length, cfg.time_increment,
                           cfg.use_if_needed, facilitator_ids)
                = ReferenceValid(members, cfg.meeting_length, cfg.time_increment,
                                 cfg.use_if_needed, facilitator_ids)

\* the run has applied the checker, and the compared lists hold a valid group, a
\* group rejected for its facilitator count alone, and a group with exactly one
\* facilitator rejected for its times
C13_Witness ==
    /\ Returned
    /\ cfg.facilitator_ids # {}
    /\ \E a, b, c \in TestMembers :
          /\ Len(a) = 2 /\ Len(b) = 2 /\ Len(c) = 2
          /\ is_group_valid(a, cfg.meeting_length, cfg.time_increment, cfg.use_if_needed,
                            cfg.facilitator_ids)
          /\ ~is_group_valid(b, cfg.meeting_length, cfg.time_increment, cfg.use_if_needed,
                             cfg.facilitator_ids)
          /\ is_group_valid(b, cfg.meeting_length, cfg.time_increment, cfg.use_if_needed, {})
          /\ Cardinality(facilitators_in_group(c, cfg.facilitator_ids)) = 1
          /\ ~is_group_valid(c, cfg.meeting_length, cfg.time_increment, cfg.use_if_needed,
                             cfg.facilitator_ids)

\* the member lists the finder is compared on: the groups it was applied to, every
\* single person, and the whole input
TestOptionMembers ==
    {best_solution[k].people : k \in DOMAIN best_solution}
    \cup {<<i>> : i \in Ids} \cup {IdSeq}

\* the grid starts at which every member is available at every grid offset of the block
ReferenceValidStarts(members, meeting_length, inc, use_if_needed) ==
    {t0 \in ReferenceStarts(inc) :
        \A o \in ReferenceOffsets(meeting_length, inc) :
            \A m \in DOMAIN members :
                ReferenceAvailable(people[members[m]], t0 + o, use_if_needed)}

OptionsExact(members, use_if_needed) ==
    LET options == find_cohort_time_options(members, cfg.meeting_length,
                                            cfg.time_increment, use_if_needed)
        starts == ReferenceValidStarts(members, cfg.meeting_length, cfg.time_increment,
                                       use_if_needed)
    IN  /\ \A k \in DOMAIN options :
              /\ options[k][1] \in starts
              /\ options[k][2] = options[k][1] + cfg.meeting_length
        /\ \A t0 \in starts : \E k \in DOMAIN options : options[k][1] = t0
        /\ \A k \in DOMAIN options : k > 1 => options[k - 1][1] < options[k][1]
        /\ members # <<>> =>
              ((options # <<>>) <=> is_group_valid(members, cfg.meeting_length,
                                                  cfg.time_increment, use_if_needed, {}))

\* C14: find_cohort_time_options returns, in strictly ascending order of t0,
\* (t0, t0 + meeting_length) for exactly the grid starts at which everyone is
\* available at every grid offset of the block; for a non-empty list it is
\* non-empty iff is_group_valid without facilitator_ids returns True
C14_TimeOptionsExact ==
    Returned =>
        \A members \in TestOptionMembers, use_if_needed \in BOOLEAN :
            OptionsExact(members, use_if_needed)

\* times have been assigned: one returned group has several options and was given
\* the first, and one compared list has none
C14_Witness ==
    /\ Returned
    /\ \E k \in DOMAIN best_solution :
          LET options == find_cohort_time_options(best_solution[k].people,
                             cfg.meeting_length, cfg.time_increment, TRUE)
          IN  /\ Len(best_solution[k].people) >= 2
              /\ Len(options) >= 2
              /\ best_solution[k].selected_time = options[1]
    /\ \E members \in TestOptionMembers :
          find_cohort_time_options(members, cfg.meeting_length, cfg.time_increment,
                                   TRUE) = <<>>

InLoop == pc \in {"iterate", "place", "assign"}

\* sum(len(g.people) for g in groups), counted member by member
PlacedCount(groups) ==
    Cardinality({<<k, m>> \in (DOMAIN groups) \X (1..Len(people)) :
                    m \in DOMAIN groups[k].people})

\* C15: from the end of the first pass on, best_score is the number of members of
\* the groups of best_solution, and no step of the loop lowers best_score
C15_ScoreBookkeeping ==
    [][/\ best_score' >= best_score
       /\ (InLoop' /\ best_iteration' >= 0) => best_score' = PlacedCount(best_solution')]_vars

\* a second pass scored less than the first, and the first one's score was kept
C15_Witness ==
    /\ Returned
    /\ Len(pass_scores) >= 2
    /\ pass_scores[2] < pass_scores[1]
    /\ best_score = pass_scores[1]
    /\ best_score = PlacedCount(best_solution)

MaxScore(scores) == CHOOSE x \in {scores[k] : k \in DOMAIN scores} :
                        \A k \in DOMAIN scores : scores[k] <= x

\* the index, counted from 0, of the first pass that scored the maximum
FirstBest(scores) ==
    (CHOOSE k \in DOMAIN scores :
        /\ scores[k] = MaxScore(scores)
        /\ \A j \in DOMAIN scores : scores[j] = MaxScore(scores) => k <= j) - 1

\* C16: at the end of every pass best_score is the highest score of the passes run,
\* best_iteration is the first pass that scored it, and best_solution is that
\* pass's solution: it is replaced by the pass that just ended iff that pass is the
\* first to reach the score, and left alone otherwise
C16_FirstFoundTieBreak ==
    [][(pc = "place" /\ pc' # "place") =>
          /\ best_score' = MaxScore(pass_scores')
          /\ best_iteration' = FirstBest(pass_scores')
          /\ IF FirstBest(pass_scores') = iteration
             THEN best_solution' = SelectSeq(new_groups,
                                       LAMBDA g : Len(g.people) >= cfg.min_people)
             ELSE best_solution' = best_solution]_vars

\* the second pass scored what the first did with a different solution, and the
\* first pass's solution was kept
C16_Witness ==
    /\ pc = "assign"
    /\ Len(pass_scores) = 2
    /\ pass_scores[1] = pass_scores[2]
    /\ pass_scores[1] > 0
    /\ best_iteration = 0
    /\ best_solution # SelectSeq(new_groups, LAMBDA g : Len(g.people) >= cfg.min_people)

\* the fourth value run_scheduling returns: iteration + 1
iterations_run == iteration + 1

\* C17: no pass runs after the first one at which best_score equals len(people);
\* the returned iterations_run is best_iteration + 1 when best_score = len(people)
\* and num_iterations otherwise
C17_EarlyExitTiming ==
    Returned =>
        /\ Len(pass_scores) = iterations_run
        /\ \A k \in DOMAIN pass_scores :
              (\E j \in 1..k : MaxScore(SubSeq(pass_scores, 1, j)) = Len(people))
                  => k = Len(pass_scores)
        /\ iterations_run = IF best_score = Len(people) THEN best_iteration + 1
                            ELSE cfg.num_iterations

\* a first pass placed everyone and the remaining passes were not run
C17_Witness ==
    /\ Returned
    /\ Len(people) > 0
    /\ best_score = Len(people)
    /\ iterations_run = 1
    /\ cfg.num_iterations > 1

NoAvailability(person) == person.intervals = <<>> /\ person.if_needed_intervals = <<>>

\* C18: with 1 <= min_people <= max_people, a person whose intervals and
\* if_needed_intervals are both empty is in no group of the returned solution
C18_NoPlacementWithoutAvailability ==
    (Returned /\ 1 <= cfg.min_people /\ cfg.min_people <= cfg.max_people) =>
        \A k \in DOMAIN best_solution :
            \A m \in DOMAIN best_solution[k].people :
                ~NoAvailability(people[best_solution[k].people[m]])

ContractViolated ==
    \/ cfg.meeting_length <= 0
    \/ cfg.meeting_length % cfg.time_increment # 0
    \/ cfg.min_people > cfg.max_people
    \/ cfg.min_people <= 0
    \/ cfg.max_people <= 0

\* C19: when meeting_length is not a positive multiple of time_increment, or
\* min_people > max_people, or min_people or max_people is <= 0, run_scheduling
\* returns no grouping
C19_ContractViolationsRejected ==
    ContractViolated => ~(Returned /\ best_solution # <<>>)

\* C20: for an empty people list and num_iterations >= 1 run_scheduling returns
\* zero groups, best_score 0 and best_iteration 0 after exactly one iteration
C20_EmptyInput ==
    (Returned /\ people = <<>> /\ cfg.num_iterations >= 1) =>
        /\ best_solution = <<>>
        /\ best_score = 0
        /\ best_iteration = 0
        /\ iterations_run = 1

\* a run on no people that was allowed several iterations has returned
C20_Witness ==
    /\ Returned
    /\ people = <<>>
    /\ cfg.num_iterations > 1
    /\ pass_scores = <<0>>

PassEnded == pc = "place" /\ pos > Len(people_sorted)

Members(group) == {group.people[k] : k \in DOMAIN group.people}

With(ivs) == {i \in Ids : people[i].intervals = ivs /\ people[i].if_needed_intervals = <<>>}

ScenarioFive ==
    /\ Len(people) = 5
    /\ Cardinality(With(<<MonNineToTen>>)) = 4
    /\ Cardinality(With(<<MonTenToEleven>>)) = 1
    /\ cfg.meeting_length = 30 /\ cfg.time_increment = 30
    /\ cfg.min_people = 2 /\ cfg.max_people = 5
    /\ ~FacilitatorMode

\* C21: with A, B, C, D free only at [540, 600) and E only at [600, 660),
\* meeting_length 30, groups of 2 to 5 on the 30-minute grid and no facilitators,
\* every pass returns exactly one group, whose members are exactly A, B, C, D
C21_ScenarioFive ==
    (ScenarioFive /\ PassEnded) =>
        LET result == FilterSmall(new_groups, cfg.min_people)
        IN  /\ Len(result) = 1
            /\ Len(result[1].people) = 4
            /\ Members(result[1]) = With(<<MonNineToTen>>)

\* a pass of the scenario has ended in which E was processed first and the order
\* was drawn at random
C21_Witness ==
    /\ ScenarioFive /\ PassEnded
    /\ cfg.randomness > 0
    /\ people_sorted[1] \in With(<<MonTenToEleven>>)
    /\ people_sorted[2] > people_sorted[3]

ScenarioFacilitated ==
    /\ Len(people) = 4
    /\ Cardinality(With(<<WholeWeek>>)) = 1
    /\ Cardinality(With(<<TueTwoToHalfPast>>)) = 3
    /\ cfg.facilitator_ids = With(<<WholeWeek>>)
    /\ \A f \in cfg.facilitator_ids :
          f \in DOMAIN cfg.facilitator_max_cohorts /\ cfg.facilitator_max_cohorts[f] = 1
    /\ cfg.meeting_length = 30 /\ cfg.time_increment = 30
    /\ cfg.min_people <= 4 /\ 4 <= cfg.max_people

\* C22: with one facilitator F free the whole week, three non-facilitators free
\* only Tuesday 14:00-14:30, a cap of 1 for F, meeting_length 30 on the 30-minute
\* grid and min_people <= 4 <= max_people, every pass returns exactly one group:
\* F and the three others, with facilitator_id = F
C22_ScenarioFacilitated ==
    (ScenarioFacilitated /\ PassEnded) =>
        LET result == FilterSmall(new_groups, cfg.min_people)
        IN  /\ Len(result) = 1
            /\ Len(result[1].people) = 4
            /\ Members(result[1]) = Ids
            /\ {result[1].facilitator_id} = cfg.facilitator_ids

\* a pass of the scenario has ended with F last in the input, a random order and
\* min_people = max_people = 4
C22_Witness ==
    /\ ScenarioFacilitated /\ PassEnded
    /\ cfg.facilitator_ids = {4}
    /\ cfg.randomness > 0
    /\ cfg.min_people = 4 /\ cfg.max_people = 4
    /\ people_sorted[1] > people_sorted[2]

Without(members, k) == SubSeq(members, 1, k - 1) \o SubSeq(members, k + 1, Len(members))

ValidWith(members, facilitator_ids) ==
    is_group_valid(members, cfg.meeting_length, cfg.time_increment, cfg.use_if_needed,
                   facilitator_ids)

\* the groups whose members are removed one at a time: the compared lists and the
\* groups of the returned solution
TestRemovalGroups ==
    TestMembers \cup {best_solution[k].people : k \in DOMAIN best_solution}

\* C23 as stated: whenever is_group_valid(G) is True, it is True, with the same
\* arguments, for G with any single member removed
C23_ValidityClosedUnderRemoval ==
    Returned =>
        \A members \in TestRemovalGroups, facilitator_ids \in TestFacilitatorIds :
            ValidWith(members, facilitator_ids) =>
                \A k \in DOMAIN members : ValidWith(Without(members, k), facilitator_ids)

\* C23 amended: whenever is_group_valid(G) is True, it is True, with the same
\* arguments, for G with a single member removed, provided facilitator_ids is
\* empty, or the removed member is not in facilitator_ids, or G has one member
C23_ValidityClosedUnderNonFacilitatorRemoval ==
    Returned =>
        \A members \in TestRemovalGroups, facilitator_ids \in TestFacilitatorIds :
            ValidWith(members, facilitator_ids) =>
                \A k \in DOMAIN members :
                    (facilitator_ids = {} \/ members[k] \notin facilitator_ids
                        \/ Len(members) = 1)
                        => ValidWith(Without(members, k), facilitator_ids)

\* the run has ended, and a valid group of three with its one facilitator and a
\* valid group of two without facilitator_ids have had members removed
C23_Witness ==
    /\ Returned
    /\ cfg.facilitator_ids # {}
    /\ \E members \in TestRemovalGroups :
          /\ Len(members) = 3
          /\ ValidWith(members, cfg.facilitator_ids)
          /\ \E k \in DOMAIN members :
                members[k] \notin cfg.facilitator_ids
                /\ ValidWith(Without(members, k), cfg.facilitator_ids)
    /\ \E members \in TestRemovalGroups : Len(members) = 2 /\ ValidWith(members, {})

\* the groups of a list that were created with facilitator f
GroupsOpenedBy(groups, f) == {i \in DOMAIN groups : groups[i].facilitator_id = f}

\* facilitator_max_cohorts.get(f, 1), 1 when facilitator_max_cohorts is None
CapOf(f) ==
    IF cfg.facilitator_max_cohorts = NoCaps THEN 1
    ELSE IF f \in DOMAIN cfg.facilitator_max_cohorts THEN cfg.facilitator_max_cohorts[f]
    ELSE 1

\* C24: in facilitator mode, at every step of a greedy pass and in its result, the
\* number of groups created with a facilitator f, the groups that the min_people
\* filter discards included, never exceeds facilitator_max_cohorts.get(f, 1)
C24_FacilitatorCap ==
    FacilitatorMode =>
        \A f \in cfg.facilitator_ids :
            /\ Cardinality(GroupsOpenedBy(new_groups, f)) <= CapOf(f)
            /\ Cardinality(GroupsOpenedBy(best_solution, f)) <= CapOf(f)

\* a pass has ended with a facilitator of cap 2 at two groups and a person, who
\* could meet that facilitator, left without a group
C24_Witness ==
    /\ FacilitatorMode
    /\ PassEnded
    /\ \E f \in cfg.facilitator_ids :
          /\ CapOf(f) = 2
          /\ Cardinality(GroupsOpenedBy(new_groups, f)) = 2
          /\ \E id \in Ids :
                /\ \A i \in DOMAIN new_groups : id \notin Members(new_groups[i])
                /\ ValidWith(<<f, id>>, cfg.facilitator_ids)

\* the existing groups with fewer than max_people members that are valid together
\* with the person, by the reference definition of validity
Fits(groups, person) ==
    {i \in DOMAIN groups :
        /\ Len(groups[i].people) < cfg.max_people
        /\ ReferenceValid(Append(groups[i].people, person), cfg.meeting_length,
                          cfg.time_increment, cfg.use_if_needed, {})}

\* groups2 is groups with the person appended to group i and nothing else changed
AppendedTo(groups, groups2, i, person) ==
    /\ Len(groups2) = Len(groups)
    /\ groups2[i].people = Append(groups[i].people, person)
    /\ \A j \in DOMAIN groups : j # i => groups2[j] = groups[j]

\* groups2 is groups followed by one new group holding the person alone
OpenedFor(groups, groups2, person) ==
    /\ Len(groups2) = Len(groups) + 1
    /\ groups2[Len(groups2)].people = <<person>>
    /\ \A j \in DOMAIN groups : groups2[j] = groups[j]

\* C25: in non-facilitator mode the person being processed opens a new
\* single-person group if and only if no existing group with fewer than max_people
\* members is valid together with them; otherwise they are appended to one such
\* group and to no other, with randomness = 0 to the lowest-index one
C25_GreedyPlacementRule ==
    [][(pc = "place" /\ pos <= Len(people_sorted) /\ pos' = pos + 1 /\ ~FacilitatorMode) =>
          LET person == people_sorted[pos]
              fits == Fits(new_groups, person)
          IN  /\ (fits = {}) <=> OpenedFor(new_groups, new_groups', person)
              /\ fits # {} =>
                    \E i \in fits :
                        /\ AppendedTo(new_groups, new_groups', i, person)
                        /\ cfg.randomness = 0 => \A j \in fits : i <= j]_vars

\* a pass without randomness has ended: the last person fitted two groups with
\* room and went to the first one, the second having been opened by a person who
\* fitted no group
C25_Witness ==
    /\ ~FacilitatorMode
    /\ cfg.randomness = 0
    /\ PassEnded
    /\ Len(new_groups) >= 2
    /\ Len(people_sorted) >= 3
    /\ LET person == people_sorted[Len(people_sorted)]
           before == [new_groups EXCEPT ![1].people = SubSeq(@, 1, Len(@) - 1)]
       IN  /\ Len(new_groups[1].people) >= 2
           /\ new_groups[1].people[Len(new_groups[1].people)] = person
           /\ {1, 2} \subseteq Fits(before, person)
           /\ Fits(<<before[1]>>, new_groups[2].people[1]) = {}

\* order is the candidates in ascending total available minutes, ties in input
\* order (person ids are positions in the input list)
AscendingStable(order, candidates) ==
    /\ Len(order) = Cardinality(candidates)
    /\ {order[k] : k \in DOMAIN order} = candidates
    /\ \A i, j \in DOMAIN order :
          i < j =>
              LET ti == calculate_total_available_time(people[order[i]])
                  tj == calculate_total_available_time(people[order[j]])
              IN  ti < tj \/ (ti = tj /\ order[i] < order[j])

\* the groups after the first n people of order, placed without any random value:
\* the lowest-index group with room that is valid with the person, else a new
\* group (in facilitator mode: with the first facilitator in input order who is
\* below their cap and can meet the person, else no group)
RECURSIVE FirstFit(_, _)
FirstFit(order, n) ==
    IF n = 0 THEN <<>>
    ELSE LET groups == FirstFit(order, n - 1)
             person == order[n]
             fits == {i \in DOMAIN groups :
                         /\ Len(groups[i].people) < cfg.max_people
                         /\ ReferenceValid(Append(groups[i].people, person),
                                           cfg.meeting_length, cfg.time_increment,
                                           cfg.use_if_needed, cfg.facilitator_ids)}
             openers == {f \in cfg.facilitator_ids \cap Ids :
                            /\ Cardinality(GroupsOpenedBy(groups, f)) < CapOf(f)
                            /\ ReferenceValid(<<f, person>>, cfg.meeting_length,
                                              cfg.time_increment, cfg.use_if_needed,
                                              cfg.facilitator_ids)}
         IN  IF fits # {}
             THEN [groups EXCEPT ![Min(fits)].people = Append(@, person)]
             ELSE IF cfg.facilitator_ids = {}
             THEN Append(groups, Group(Len(groups), <<person>>, NoneId))
             ELSE IF openers # {}
             THEN Append(groups, Group(Len(groups), <<Min(openers), person>>, Min(openers)))
             ELSE groups

\* C26: with randomness = 0 a pass is a function of the people list and the
\* configuration alone, whatever the random generator yields: people are processed
\* in ascending total available minutes with ties in input order, and the groups
\* after each person are the first-fit groups; hence every pass returns the same
\* groups and run_scheduling returns best_iteration = 0
C26_DeterministicWithoutRandomness ==
    cfg.randomness = 0 =>
        /\ pc = "place" =>
              /\ AscendingStable(people_sorted, Ids \ cfg.facilitator_ids)
              /\ new_groups = FirstFit(people_sorted, pos - 1)
              /\ iteration >= 1 =>
                    best_solution = FilterSmall(FirstFit(people_sorted, Len(people_sorted)),
                                                cfg.min_people)
        /\ Returned => best_iteration = 0

\* a second pass without randomness has ended with the groups of the first one,
\* after processing two people of equal total in input order and placing a person
\* who fitted two groups
C26_Witness ==
    /\ cfg.randomness = 0
    /\ PassEnded
    /\ iteration = 1
    /\ best_iteration = 0
    /\ FilterSmall(new_groups, cfg.min_people) = best_solution
    /\ \E k \in DOMAIN people_sorted :
          /\ k > 1
          /\ calculate_total_available_time(people[people_sorted[k]])
               = calculate_total_available_time(people[people_sorted[k - 1]])
    /\ \E k \in DOMAIN people_sorted :
          Cardinality(Fits(FirstFit(people_sorted, k - 1), people_sorted[k])) >= 2

\* how many times the groups list a person, counted member by member
TimesListed(groups, id) ==
    Cardinality({<<k, m>> \in (DOMAIN groups) \X (1..(Len(people) + 1)) :
                    m \in DOMAIN groups[k].people /\ groups[k].people[m] = id})

NoRepeatedMember(groups) ==
    \A k \in DOMAIN groups :
        \A m, n \in DOMAIN groups[k].people :
            m # n => groups[k].people[m] # groups[k].people[n]

\* the groups of new_groups that the min_people filter discards
Discarded(groups) == SelectSeq(groups, LAMBDA g : Len(g.people) < cfg.min_people)

\* C30: in the groups a pass returns no group lists a person twice and no
\* non-facilitator is in more than one group; in non-facilitator mode the returned
\* groups and the groups discarded by the min_people filter together contain
\* every input person exactly once
C30_DisjointGroups ==
    PassEnded =>
        LET result == FilterSmall(new_groups, cfg.min_people)
        IN  /\ NoRepeatedMember(result)
            /\ \A id \in Ids \ cfg.facilitator_ids : TimesListed(result, id) <= 1
            /\ ~FacilitatorMode =>
                  \A id \in Ids :
                      TimesListed(result, id) + TimesListed(Discarded(new_groups), id) = 1

\* a pass with randomness in non-facilitator mode has ended with a returned group
\* of two or more and a discarded group
C30_Witness ==
    /\ PassEnded
    /\ ~FacilitatorMode
    /\ Len(people) >= 3
    /\ cfg.randomness > 0
    /\ \E k \in DOMAIN new_groups : Len(new_groups[k].people) >= 2
    /\ FilterSmall(new_groups, cfg.min_people) # <<>>
    /\ Discarded(new_groups) # <<>>

\* every member of the group is available, per use_if_needed, at every grid offset
\* of the group's selected_time
AttendsSelectedTime(group, use_if_needed) ==
    group.selected_time # NoneTime =>
        \A o \in ReferenceOffsets(cfg.meeting_length, cfg.time_increment) :
            \A m \in DOMAIN group.people :
                ReferenceAvailable(people[group.people[m]], group.selected_time[1] + o,
                                   use_if_needed)

\* C28: after the caller ran run_scheduling and then balance_cohorts on its
\* solution, every member of every group is available at every grid offset of that
\* group's selected_time.  Stated for use_if_needed = True, the value with which
\* the slots were selected
C28_PostBalanceSlotConsistency ==
    (pc = "done" /\ cfg.use_if_needed) =>
        \A k \in DOMAIN best_solution : AttendsSelectedTime(best_solution[k], TRUE)

\* the groups of the solutions kept so far that list the person and have a slot
BookingsOf(id) ==
    {<<c, k>> \in (DOMAIN all_solutions) \X (1..Len(all_people)) :
        /\ k \in DOMAIN all_solutions[c]
        /\ all_solutions[c][k].selected_time # NoneTime
        /\ \E m \in DOMAIN all_solutions[c][k].people : all_solutions[c][k].people[m] = id}

Overlap(b1, b2) == b1[1] < b2[2] /\ b1[2] > b2[1]

\* C29: a person who is in groups of two different courses never has two
\* selected_time blocks that overlap, for any order of courses, with balancing
\* enabled or disabled
C29_NoDoubleBooking ==
    \A id \in DOMAIN all_people :
        \A x, y \in BookingsOf(id) :
            x[1] # y[1] =>
                ~Overlap(all_solutions[x[1]][x[2]].selected_time,
                         all_solutions[y[1]][y[2]].selected_time)

\* positions of the intervals that overlap no assigned block
KeptPositions(intervals, blocked) ==
    {k \in DOMAIN intervals :
        \A b \in DOMAIN blocked :
            ~(intervals[k][1] < blocked[b][2] /\ intervals[k][2] > blocked[b][1])}

\* adjusted is exactly the intervals at the kept positions, in their order
ExactlyKept(adjusted, intervals, blocked) ==
    LET kept == KeptPositions(intervals, blocked)
    IN  /\ Len(adjusted) = Cardinality(kept)
        /\ \A k \in kept :
              adjusted[Cardinality({j \in kept : j <= k})] = intervals[k]

\* C27: before a course's run the adjusted intervals and if_needed_intervals of
\* each person are exactly the original ones, in order, that overlap no assigned
\* block (overlap = start < b_end and end > b_start): no interval is trimmed or
\* added, the original Person is not changed, and a person with no assigned block
\* is passed through unchanged
C27_TimeBlockingIsFilter ==
    [][(pc = "next_course" /\ pc' = "iterate") =>
          LET members == courses[course']
          IN  /\ all_people' = all_people
              /\ Len(people') = Len(members)
              /\ \A i \in DOMAIN members :
                    LET original == all_people[members[i]]
                        blocked == assigned_times[members[i]]
                    IN  /\ ExactlyKept(people'[i].intervals, original.intervals, blocked)
                        /\ ExactlyKept(people'[i].if_needed_intervals,
                                       original.if_needed_intervals, blocked)
                        /\ blocked = <<>> =>
                              /\ people'[i].intervals = original.intervals
                              /\ people'[i].if_needed_intervals
                                   = original.if_needed_intervals]_vars

\* the second course starts after the first one booked two people on Tuesday
\* 09:00-10:00: one lost that interval and kept the one that starts at 10:00, the
\* other lost the whole if-needed interval 09:00-11:00 and kept Monday, and the
\* people without a block are passed on as they were
C27_Witness ==
    /\ pc = "iterate"
    /\ course = 2
    /\ courses[2] = <<1, 2, 3, 4>>
    /\ assigned_times = <<<<>>, <<>>, <<TueNineToTen>>, <<TueNineToTen>>>>
    /\ people[1].intervals = all_people[1].intervals
    /\ people[2].intervals = all_people[2].intervals
    /\ people[3].intervals = <<TueTenToEleven>>
    /\ all_people[3].intervals = <<TueNineToTen, TueTenToEleven>>
    /\ people[4].intervals = <<MonNineToEleven>>
    /\ people[4].if_needed_intervals = <<>>
    /\ all_people[4].if_needed_intervals = <<TueNineToEleven>>

====
